---- MODULE Spec2Model ----
(***************************************************************************)
(* DigiSign API client (src/src/index.js, lines 298-497): the process-wide *)
(* token cache of getToken, the request execution primitive apiCall with   *)
(* its three-way response dispatch, and the request bodies the operations  *)
(* build.  Time is in whole seconds (Date.now() / 1000).                   *)
(***************************************************************************)
EXTENDS Integers, Sequences, FiniteSets, TLC

VARIABLES
    now,            \* Date.now() / 1000
    ticks,          \* number of clock advances so far (bounds the clock)
    cachedToken,    \* module variable; NoToken models null
    tokenExpiry,    \* module variable
    calls,          \* one record per invocation of an API Client operation
    nextTok,        \* the remote service's next fresh token
    cacheAt,        \* history: the time of the last cache write
    lastExch,       \* history: the data of the exchange response processed last
    lastResult,     \* the settled apiCall promise its tool handler is about to
                    \* receive, with the response that settled it and, as
                    \* history, the cache as it was before that step
    opInput,        \* the input of the operation whose request is built
    opRequest       \* the request that operation handed to apiCall

vars == <<now, ticks, cachedToken, tokenExpiry, calls, nextTok, cacheAt,
          lastExch, lastResult, opInput, opRequest>>

-----------------------------------------------------------------------------
(* Bounds of the model *)

NumCalls == 2
MaxTicks == 1

Calls == 1..NumCalls

\* The clock advances by one of these amounts: to just before, onto and just
\* after the boundary expiresAt - 60 of a token issued for 3600 seconds.
TickSteps == {3539, 3540, 3541}

\* Lifetimes (exp - now) the remote service grants.
ExpOffsets == {30, 3600}

-----------------------------------------------------------------------------
(* Values *)

NoToken == 0
Buffer == 60

\* JavaScript values of the operations' inputs: undefined, a string, a number.
Undef == [t |-> "undef", s |-> "", n |-> 0]
Str(x) == [t |-> "str", s |-> x, n |-> 0]
Num(k) == [t |-> "num", s |-> "", n |-> k]

\* JavaScript truthiness of such a value: if (v) ...
Truthy(v) == \/ v.t = "str" /\ v.s # ""
             \/ v.t = "num" /\ v.n # 0

\* Template-literal conversion `${v}` of the values the model uses.
TextOfNum(k) == CASE k = 0 -> "0" [] k = 1 -> "1" [] k = 2 -> "2" [] OTHER -> "n"
TemplateText(v) == CASE v.t = "undef" -> "undefined"
                     [] v.t = "str" -> v.s
                     [] OTHER -> TextOfNum(v.n)

-----------------------------------------------------------------------------
(* The remote service's answers *)

AuthStatuses == {200, 401}
AuthErrTexts == {"{\"message\":\"Invalid credentials\"}"}

ApiStatuses == {200, 204, 502}

\* A content-type header as its list of ;-separated parts; <<>> is a
\* response without the header.
ContentTypes == { <<>>,
                  <<"application/json">>,
                  <<"application/pdf">>,
                  <<"application/zip", "charset=binary">> }

\* Bodies: a JSON document and one that is not JSON (its bytes read as text).
JsonTexts == {"{\"id\":\"e1\"}"}
BodyTexts == JsonTexts \cup {"<html>Bad Gateway</html>"}

\* res.ok
Ok(status) == status >= 200 /\ status <= 299

\* contentType.includes(part)
Includes(contentType, part) ==
    \E i \in DOMAIN contentType : contentType[i] = part

\* res.json(): the parsed value, or a rejection with a SyntaxError.
JsonValid(text) == text \in JsonTexts
JsonParse(text) == [binary |-> FALSE, contentType |-> <<>>, buffer |-> "", json |-> text]
\* JSON.stringify(data) of a parsed value gives its canonical text back.
JsonStringify(data) == data.json

-----------------------------------------------------------------------------
(* Errors: name and message of the thrown Error *)

NoError == [name |-> "", prefix |-> "", status |-> 0, body |-> ""]
\* new Error(`Auth failed (${res.status}): ${body}`)
AuthFailed(status, body) ==
    [name |-> "Error", prefix |-> "Auth failed", status |-> status, body |-> body]
\* new Error(`API error (${res.status}): ${JSON.stringify(data)}`)
ApiFailed(status, data) ==
    [name |-> "Error", prefix |-> "API error", status |-> status,
     body |-> JsonStringify(data)]
\* what res.json() rejects with on a body that is not JSON
JsonSyntaxError ==
    [name |-> "SyntaxError", prefix |-> "Unexpected token", status |-> 0, body |-> ""]
\* what fetch rejects with when no response arrives
FetchFailed ==
    [name |-> "TypeError", prefix |-> "fetch failed", status |-> 0, body |-> ""]

-----------------------------------------------------------------------------
(* Results of apiCall.  The three values it returns are plain objects. *)

NoValue == [binary |-> FALSE, contentType |-> <<>>, buffer |-> "", json |-> ""]
\* { _binary: true, contentType, buffer: Buffer.from(buffer) }
BinaryResult(contentType, buffer) ==
    [binary |-> TRUE, contentType |-> contentType, buffer |-> buffer, json |-> ""]
\* { success: true }
SuccessResult == JsonParse("{\"success\":true}")

-----------------------------------------------------------------------------
(* The token cache *)

\* Variants with a slip in the comparison: no safety buffer; <= for <.
CacheValidNoBuffer(token, expiry, time) ==
    token # NoToken /\ time < expiry
CacheValidInclusive(token, expiry, time) ==
    token # NoToken /\ time <= expiry - Buffer

\* cachedToken && Date.now() / 1000 < tokenExpiry - 60
CacheValid(token, expiry, time) ==
    token # NoToken /\ time < expiry - Buffer

\* Variant: the expiry is only ever extended, so the two cached values can
\* come from different responses.
CacheWriteKeepLaterExpiry(oldToken, oldExpiry, data) ==
    [token |-> data.token,
     expiry |-> IF oldExpiry > data.exp THEN oldExpiry ELSE data.exp]

\* cachedToken = data.token; tokenExpiry = data.exp;  (one synchronous block)
CacheWrite(oldToken, oldExpiry, data) ==
    [token |-> data.token, expiry |-> data.exp]

\* Variant: the token is returned as it was cached before the write.
ExchangeReturnStale(cache, data) == cachedToken

\* return cachedToken;  (after the write, in the same block)
ExchangeReturn(cache, data) == cache.token

NoSeen == [now |-> 0, token |-> NoToken, expiry |-> 0, at |-> 0]
NoPair == [token |-> NoToken, expiry |-> 0]

IdleCall ==
    [pc |-> "idle", hit |-> FALSE, seen |-> NoSeen, authReqs |-> 0, apiReqs |-> 0,
     data |-> NoPair, token |-> NoToken, bearer |-> NoToken,
     wrote |-> NoPair, result |-> "pending"]

NoResult ==
    [call |-> 0, phase |-> "", status |-> 0, contentType |-> <<>>, text |-> "",
     threw |-> FALSE, error |-> NoError, value |-> NoValue, before |-> NoPair]

NoInput == [op |-> "apiCall"]
NoRequest == [method |-> "", path |-> "", body |-> <<>>, sent |-> <<>>]

InitCore ==
    /\ now = 0
    /\ ticks = 0
    /\ cachedToken = NoToken
    /\ tokenExpiry = 0
    /\ calls = [c \in Calls |-> IdleCall]
    /\ nextTok = 1
    /\ cacheAt = 0
    /\ lastExch = NoPair
    /\ lastResult = NoResult

Init ==
    /\ InitCore
    /\ opInput = NoInput
    /\ opRequest = NoRequest

-----------------------------------------------------------------------------
(* Request bodies.  A JavaScript object is a function from its own keys to
   values; a key can hold undefined. *)

EmptyObject == [k \in {} |-> Undef]
SetKey(obj, key, value) ==
    [k \in DOMAIN obj \cup {key} |-> IF k = key THEN value ELSE obj[k]]

\* JSON.stringify(body) leaves out the keys that hold undefined.
Serialized(obj) ==
    [k \in {x \in DOMAIN obj : obj[x].t # "undef"} |-> obj[k]]

RecipientRef(envelopeId, recipientId) ==
    Str("/api/envelopes/" \o envelopeId \o "/recipients/" \o TemplateText(recipientId))
DocumentRef(envelopeId, documentId) ==
    Str("/api/envelopes/" \o envelopeId \o "/documents/" \o TemplateText(documentId))

\* Variant: the coordinates are passed through in both modes.
AddTagBodyPassThrough(envelopeId, in) ==
    LET base == SetKey(SetKey(EmptyObject, "recipient",
                              RecipientRef(envelopeId, in.recipientId)),
                       "type", IF Truthy(in.type) THEN in.type ELSE Str("signature"))
        mode == IF Truthy(in.placeholder)
                THEN SetKey(base, "placeholder", in.placeholder)
                ELSE SetKey(base, "document", DocumentRef(envelopeId, in.documentId))
    IN  SetKey(SetKey(SetKey(mode, "page", in.page),
                      "xPosition", in.xPosition),
               "yPosition", in.yPosition)

\* The body addTag builds.
AddTagBody(envelopeId, in) ==
    LET base == SetKey(SetKey(EmptyObject, "recipient",
                              RecipientRef(envelopeId, in.recipientId)),
                       "type", IF Truthy(in.type) THEN in.type ELSE Str("signature"))
    IN  IF Truthy(in.placeholder)
        THEN LET b1 == SetKey(base, "placeholder", in.placeholder)
                 b2 == IF Truthy(in.positioning)
                       THEN SetKey(b1, "positioning", in.positioning) ELSE b1
             IN  IF Truthy(in.documentId)
                 THEN SetKey(b2, "document", DocumentRef(envelopeId, in.documentId))
                 ELSE b2
        ELSE SetKey(SetKey(SetKey(SetKey(base,
                 "document", DocumentRef(envelopeId, in.documentId)),
                 "page", in.page),
                 "xPosition", in.xPosition),
                 "yPosition", in.yPosition)

\* The inputs of addTag the tool layer can pass: every field but
\* recipientId is optional, strings can be empty, numbers can be 0.
TagInputs ==
    [ op : {"addTag"},
      envelopeId : {"e1"},
      recipientId : {Str("r1")},
      documentId : {Undef, Str("d1")},
      type : {Undef, Str("text")},
      placeholder : {Undef, Str(""), Str("{sign_here}")},
      positioning : {Undef, Str("bottom_left")},
      page : {Undef, Num(0), Num(1)},
      xPosition : {Undef, Num(0), Num(2)},
      yPosition : {Undef, Num(2)} ]

-----------------------------------------------------------------------------
(* Query strings.  A URLSearchParams is the list of its <<name, value>>
   pairs, the values converted to text. *)

\* query.set(name, value) on a list that has no such name yet
QuerySet(query, name, value) == Append(query, <<name, TemplateText(value)>>)

\* query.toString(): name=value joined by &.  (The names and values of the
\* model need no percent-encoding.)
RECURSIVE QueryToString(_)
QueryToString(query) ==
    IF query = <<>> THEN ""
    ELSE LET head == query[1][1] \o "=" \o query[1][2]
         IN  IF Len(query) = 1 THEN head
             ELSE head \o "&" \o QueryToString(Tail(query))

\* The query listEnvelopes builds from params.
ListEnvelopesQuery(params) ==
    LET q1 == IF Truthy(params.status)
              THEN QuerySet(<<>>, "status", params.status) ELSE <<>>
        q2 == IF Truthy(params.page)
              THEN QuerySet(q1, "page", params.page) ELSE q1
    IN  IF Truthy(params.itemsPerPage)
        THEN QuerySet(q2, "itemsPerPage", params.itemsPerPage) ELSE q2

\* `/api/envelopes${qs ? '?' + qs : ''}`
ListEnvelopesPath(params) ==
    LET qs == QueryToString(ListEnvelopesQuery(params))
    IN  "/api/envelopes" \o (IF qs # "" THEN "?" \o qs ELSE "")

\* The filters of listEnvelopes: each can be left out; page and
\* itemsPerPage are any number, 0 included.
ListInputs ==
    [ op : {"listEnvelopes"},
      status : {Undef, Str(""), Str("sent")},
      page : {Undef, Num(0), Num(1)},
      itemsPerPage : {Undef, Num(0), Num(2)} ]

-----------------------------------------------------------------------------
(* The bodies of createEnvelope and addRecipient *)

OptionalEnvelopeFields == {"emailBody", "emailBodyCompleted", "senderName", "senderEmail"}

\* Variant: every optional field is set, whatever its value.
CreateEnvelopeBodyAll(in) ==
    SetKey(SetKey(SetKey(SetKey(SetKey(EmptyObject, "name", in.name),
        "emailBody", in.emailBody),
        "emailBodyCompleted", in.emailBodyCompleted),
        "senderName", in.senderName),
        "senderEmail", in.senderEmail)

\* The body createEnvelope builds: { name }, then each optional field under
\* if (field).
CreateEnvelopeBody(in) ==
    LET b0 == SetKey(EmptyObject, "name", in.name)
        b1 == IF Truthy(in.emailBody) THEN SetKey(b0, "emailBody", in.emailBody) ELSE b0
        b2 == IF Truthy(in.emailBodyCompleted)
              THEN SetKey(b1, "emailBodyCompleted", in.emailBodyCompleted) ELSE b1
        b3 == IF Truthy(in.senderName) THEN SetKey(b2, "senderName", in.senderName) ELSE b2
    IN  IF Truthy(in.senderEmail) THEN SetKey(b3, "senderEmail", in.senderEmail) ELSE b3

\* The body addRecipient builds: { role, name, email }, then mobile under
\* if (mobile).
AddRecipientBody(in) ==
    LET b0 == SetKey(SetKey(SetKey(EmptyObject, "role", in.role),
                            "name", in.name), "email", in.email)
    IN  IF Truthy(in.mobile) THEN SetKey(b0, "mobile", in.mobile) ELSE b0

\* The inputs the tool layer can pass: an optional string is missing, empty
\* or not; a required string can be empty.
EnvelopeInputs ==
    [ op : {"createEnvelope"},
      name : {Str(""), Str("Lease")},
      emailBody : {Undef, Str(""), Str("Please sign")},
      emailBodyCompleted : {Undef, Str(""), Str("Thank you")},
      senderName : {Undef, Str(""), Str("Ann")},
      senderEmail : {Undef, Str(""), Str("ann@example.com")} ]

RecipientInputs ==
    [ op : {"addRecipient"},
      envelopeId : {"e1"},
      role : {Str("signer"), Str("cc")},
      name : {Str(""), Str("Bob")},
      email : {Str("bob@example.com")},
      mobile : {Undef, Str(""), Str("+420600000000")} ]

-----------------------------------------------------------------------------
(* Files.  What fs.readFileSync finds at a path: the file, or the system
   error it throws. *)

FilePaths == {"/tmp/doc.pdf", "/tmp/missing.pdf", "/root/secret.pdf"}

FileState(filePath) ==
    CASE filePath = "/tmp/doc.pdf" -> "readable"
      [] filePath = "/tmp/missing.pdf" -> "ENOENT"
      [] OTHER -> "EACCES"

\* path.basename(filePath)
Basename(filePath) ==
    CASE filePath = "/tmp/doc.pdf" -> "doc.pdf"
      [] filePath = "/tmp/missing.pdf" -> "missing.pdf"
      [] OTHER -> "secret.pdf"

\* The system error of readFileSync: its message starts with its code.
FsError(code) == [name |-> "Error", prefix |-> code, status |-> 0, body |-> ""]

UploadInputs == [ op : {"uploadFile"}, filePath : FilePaths ]

-----------------------------------------------------------------------------
(* Time *)

\* The client's behaviour depends on differences of times only, so the clock
\* is advanced only once a token is cached, and only while a call is left.
Tick ==
    /\ ticks < MaxTicks
    /\ cachedToken # NoToken
    /\ \E c \in Calls : calls[c].pc # "done"
    /\ \E d \in TickSteps : now' = now + d
    /\ ticks' = ticks + 1
    /\ UNCHANGED <<cachedToken, tokenExpiry, calls, nextTok, cacheAt, lastExch,
                   lastResult, opInput, opRequest>>

-----------------------------------------------------------------------------
(* apiCall and getToken, one action per run between suspension points *)

\* The call c throws err (answer so far: status, contentType, text).
Throw(c, phase, status, contentType, text, err) ==
    /\ calls' = [calls EXCEPT ![c].pc = "settled", ![c].result = "threw"]
    /\ lastResult' = [call |-> c, phase |-> phase, status |-> status,
                      contentType |-> contentType, text |-> text,
                      threw |-> TRUE, error |-> err, value |-> NoValue,
                      before |-> [token |-> cachedToken, expiry |-> tokenExpiry]]

\* The call c returns value.
Return(c, status, contentType, text, value) ==
    /\ calls' = [calls EXCEPT ![c].pc = "settled", ![c].result = "returned"]
    /\ lastResult' = [call |-> c, phase |-> "api", status |-> status,
                      contentType |-> contentType, text |-> text,
                      threw |-> FALSE, error |-> NoError, value |-> value,
                      before |-> [token |-> cachedToken, expiry |-> tokenExpiry]]

\* apiCall is entered and calls getToken, which runs up to its first await:
\* a valid cached token is returned, otherwise the token exchange is sent.
EnterApiCall(c) ==
    LET seen == [now |-> now, token |-> cachedToken, expiry |-> tokenExpiry,
                 at |-> cacheAt]
    IN  IF CacheValid(cachedToken, tokenExpiry, now)
        THEN calls' = [calls EXCEPT ![c].pc = "haveToken", ![c].hit = TRUE,
                                    ![c].seen = seen, ![c].token = cachedToken]
        ELSE calls' = [calls EXCEPT ![c].pc = "authWait", ![c].hit = FALSE,
                                    ![c].seen = seen, ![c].authReqs = @ + 1]

Invoke(c) ==
    /\ calls[c].pc = "idle"
    /\ \A b \in Calls : b < c => calls[b].pc # "idle"
    /\ EnterApiCall(c)
    /\ UNCHANGED <<now, ticks, cachedToken, tokenExpiry, nextTok, cacheAt,
                   lastExch, lastResult, opInput, opRequest>>

\* fetch of the auth endpoint rejects: no response.
AuthFetchRejects(c) ==
    /\ calls[c].pc = "authWait"
    /\ Throw(c, "auth", 0, <<>>, "", FetchFailed)
    /\ UNCHANGED <<now, ticks, cachedToken, tokenExpiry, nextTok, cacheAt,
                   lastExch, opInput, opRequest>>

\* Variant: a rejected exchange also drops the cached token.
AuthRejectedClearsCache(c) ==
    /\ calls[c].pc = "authWait"
    /\ \E status \in AuthStatuses, body \in AuthErrTexts :
          /\ ~Ok(status)
          /\ Throw(c, "auth", status, <<>>, body, AuthFailed(status, body))
    /\ cachedToken' = NoToken
    /\ tokenExpiry' = 0
    /\ UNCHANGED <<now, ticks, nextTok, cacheAt, lastExch, opInput, opRequest>>

\* Variant: a rejected exchange is sent again.
AuthRejectedRetry(c) ==
    /\ calls[c].pc = "authWait"
    /\ calls[c].authReqs < 3
    /\ calls' = [calls EXCEPT ![c].authReqs = @ + 1]
    /\ UNCHANGED <<now, ticks, cachedToken, tokenExpiry, nextTok, cacheAt,
                   lastExch, lastResult, opInput, opRequest>>

\* The auth response is not ok: getToken reads its text and throws, and
\* apiCall, awaiting getToken, throws the same error.
AuthRejected(c) ==
    /\ calls[c].pc = "authWait"
    /\ \E status \in AuthStatuses, body \in AuthErrTexts :
          /\ ~Ok(status)
          /\ Throw(c, "auth", status, <<>>, body, AuthFailed(status, body))
    /\ UNCHANGED <<now, ticks, cachedToken, tokenExpiry, nextTok, cacheAt,
                   lastExch, opInput, opRequest>>

\* The auth response is ok: getToken reads its JSON, overwrites the cache
\* and returns the token.
AuthGranted(c) ==
    /\ calls[c].pc = "authWait"
    /\ \E status \in AuthStatuses, off \in ExpOffsets :
          LET data == [token |-> nextTok, exp |-> now + off]
              cache == CacheWrite(cachedToken, tokenExpiry, data)
          IN  /\ Ok(status)
              /\ cachedToken' = cache.token
              /\ tokenExpiry' = cache.expiry
              /\ calls' = [calls EXCEPT ![c].pc = "haveToken",
                                         ![c].data = [token |-> data.token, expiry |-> data.exp],
                                         ![c].wrote = cache,
                                         ![c].token = ExchangeReturn(cache, data)]
              /\ lastExch' = [token |-> data.token, expiry |-> data.exp]
    /\ nextTok' = nextTok + 1
    /\ cacheAt' = now
    /\ UNCHANGED <<now, ticks, lastResult, opInput, opRequest>>

\* apiCall resumes with the token and sends the resource request with the
\* header Authorization: Bearer <token>.  (The record keeps the counters and
\* the header; what getToken saw is history that ends here.)
SendRequest(c) ==
    /\ calls[c].pc = "haveToken"
    /\ calls' = [calls EXCEPT ![c] = [IdleCall EXCEPT !.pc = "apiWait",
                                                      !.authReqs = calls[c].authReqs,
                                                      !.apiReqs = calls[c].apiReqs + 1,
                                                      !.bearer = calls[c].token]]
    /\ UNCHANGED <<now, ticks, cachedToken, tokenExpiry, nextTok, cacheAt,
                   lastExch, lastResult, opInput, opRequest>>

ApiFetchRejects(c) ==
    /\ calls[c].pc = "apiWait"
    /\ Throw(c, "api", 0, <<>>, "", FetchFailed)
    /\ UNCHANGED <<now, ticks, cachedToken, tokenExpiry, nextTok, cacheAt,
                   lastExch, opInput, opRequest>>

\* Variant: the status is looked at before the content type.
DispatchStatusFirst(status, contentType) ==
    IF status = 204 THEN "empty"
    ELSE IF Includes(contentType, "application/pdf") \/ Includes(contentType, "application/zip")
         THEN "binary" ELSE "json"

\* Which branch of the response dispatch a response takes.
Dispatch(status, contentType) ==
    IF Includes(contentType, "application/pdf") \/ Includes(contentType, "application/zip")
    THEN "binary"
    ELSE IF status = 204 THEN "empty" ELSE "json"

\* Variant: the parsed body is returned whatever the status.
JsonOutcomeAnyStatus(status, text) ==
    IF ~JsonValid(text)
    THEN [threw |-> TRUE, error |-> JsonSyntaxError, value |-> NoValue]
    ELSE [threw |-> FALSE, error |-> NoError, value |-> JsonParse(text)]

\* What apiCall does with a body that it reads as JSON.
JsonOutcome(status, text) ==
    IF ~JsonValid(text)
    THEN [threw |-> TRUE, error |-> JsonSyntaxError, value |-> NoValue]
    ELSE IF ~Ok(status)
         THEN [threw |-> TRUE, error |-> ApiFailed(status, JsonParse(text)), value |-> NoValue]
         ELSE [threw |-> FALSE, error |-> NoError, value |-> JsonParse(text)]

\* What apiCall makes of a response: binary and 204 responses return
\* without reading JSON, the others go through res.json().
Outcome(status, contentType, text) ==
    CASE Dispatch(status, contentType) = "binary" ->
           [threw |-> FALSE, error |-> NoError, value |-> BinaryResult(contentType, text)]
      [] Dispatch(status, contentType) = "empty" ->
           [threw |-> FALSE, error |-> NoError, value |-> SuccessResult]
      [] OTHER -> JsonOutcome(status, text)

\* The resource response arrives and apiCall returns or throws.
ApiResponse(c) ==
    /\ calls[c].pc = "apiWait"
    /\ \E status \in ApiStatuses, contentType \in ContentTypes, text \in BodyTexts :
          LET out == Outcome(status, contentType, text)
          IN  IF out.threw
              THEN Throw(c, "api", status, contentType, text, out.error)
              ELSE Return(c, status, contentType, text, out.value)
    /\ UNCHANGED <<now, ticks, cachedToken, tokenExpiry, nextTok, cacheAt,
                   lastExch, opInput, opRequest>>

\* The tool handler awaiting apiCall resumes in the same turn of the event
\* loop: result(data) or errorResult(err), and the invocation is over.
Deliver(c) ==
    /\ calls[c].pc = "settled"
    /\ lastResult.call = c
    /\ calls' = [calls EXCEPT ![c] = [IdleCall EXCEPT !.pc = "done",
                                                      !.result = calls[c].result,
                                                      !.authReqs = calls[c].authReqs,
                                                      !.apiReqs = calls[c].apiReqs]]
    /\ lastResult' = NoResult
    /\ UNCHANGED <<now, ticks, cachedToken, tokenExpiry, nextTok, cacheAt,
                   lastExch, opInput, opRequest>>

\* No promise continuation is pending: the event loop takes the next event.
Quiet == lastResult.call = 0

\* addTag: builds the body and calls apiCall, which serializes it for fetch.
AddTag ==
    /\ opInput.op = "addTag"
    /\ opRequest = NoRequest
    /\ calls[1].pc = "idle"
    /\ LET body == AddTagBody(opInput.envelopeId, opInput)
       IN  opRequest' = [method |-> "POST",
                         path |-> "/api/envelopes/" \o opInput.envelopeId \o "/tags",
                         body |-> body,
                         sent |-> Serialized(body)]
    /\ EnterApiCall(1)
    /\ UNCHANGED <<now, ticks, cachedToken, tokenExpiry, nextTok, cacheAt,
                   lastExch, lastResult, opInput>>

\* listEnvelopes: builds the path and calls apiCall without a body.
ListEnvelopes ==
    /\ opInput.op = "listEnvelopes"
    /\ opRequest = NoRequest
    /\ calls[1].pc = "idle"
    /\ opRequest' = [method |-> "GET", path |-> ListEnvelopesPath(opInput),
                     body |-> <<>>, sent |-> <<>>]
    /\ EnterApiCall(1)
    /\ UNCHANGED <<now, ticks, cachedToken, tokenExpiry, nextTok, cacheAt,
                   lastExch, lastResult, opInput>>

\* createEnvelope: builds the body and posts it.
CreateEnvelope ==
    /\ opInput.op = "createEnvelope"
    /\ opRequest = NoRequest
    /\ calls[1].pc = "idle"
    /\ LET body == CreateEnvelopeBody(opInput)
       IN  opRequest' = [method |-> "POST", path |-> "/api/envelopes",
                         body |-> body, sent |-> Serialized(body)]
    /\ EnterApiCall(1)
    /\ UNCHANGED <<now, ticks, cachedToken, tokenExpiry, nextTok, cacheAt,
                   lastExch, lastResult, opInput>>

\* addRecipient: builds the body and posts it under the envelope.
AddRecipient ==
    /\ opInput.op = "addRecipient"
    /\ opRequest = NoRequest
    /\ calls[1].pc = "idle"
    /\ LET body == AddRecipientBody(opInput)
       IN  opRequest' = [method |-> "POST",
                         path |-> "/api/envelopes/" \o opInput.envelopeId \o "/recipients",
                         body |-> body, sent |-> Serialized(body)]
    /\ EnterApiCall(1)
    /\ UNCHANGED <<now, ticks, cachedToken, tokenExpiry, nextTok, cacheAt,
                   lastExch, lastResult, opInput>>

\* The invocation that runs uploadFile, beside the others.
UploadCall == NumCalls

\* Variant: the token is obtained and the request built before the file is
\* looked at.
UploadFileTokenFirst ==
    /\ opInput.op = "uploadFile"
    /\ opRequest = NoRequest
    /\ calls[UploadCall].pc = "idle"
    /\ LET form == SetKey(EmptyObject, "file", Str(Basename(opInput.filePath)))
       IN  opRequest' = [method |-> "POST", path |-> "/api/files",
                         body |-> form, sent |-> form]
    /\ EnterApiCall(UploadCall)
    /\ UNCHANGED <<now, ticks, cachedToken, tokenExpiry, nextTok, cacheAt,
                   lastExch, lastResult, opInput>>

\* uploadFile: reads the file, which throws when it cannot be read; otherwise
\* wraps it in a form under its base name and calls apiCall, which passes
\* the form on as it is.
UploadFile ==
    /\ opInput.op = "uploadFile"
    /\ opRequest = NoRequest
    /\ calls[UploadCall].pc = "idle"
    /\ IF FileState(opInput.filePath) # "readable"
       THEN /\ Throw(UploadCall, "fs", 0, <<>>, "", FsError(FileState(opInput.filePath)))
            /\ UNCHANGED opRequest
       ELSE /\ LET form == SetKey(EmptyObject, "file", Str(Basename(opInput.filePath)))
               IN  opRequest' = [method |-> "POST", path |-> "/api/files",
                                 body |-> form, sent |-> form]
            /\ EnterApiCall(UploadCall)
            /\ UNCHANGED lastResult
    /\ UNCHANGED <<now, ticks, cachedToken, tokenExpiry, nextTok, cacheAt,
                   lastExch, opInput>>

\* The steps that carry an invocation on once it is entered.
Continue ==
    \/ \E c \in Calls : Deliver(c)
    \/ \E c \in Calls : Quiet /\ AuthFetchRejects(c)
    \/ \E c \in Calls : Quiet /\ AuthRejected(c)
    \/ \E c \in Calls : Quiet /\ AuthGranted(c)
    \/ \E c \in Calls : Quiet /\ SendRequest(c)
    \/ \E c \in Calls : Quiet /\ ApiFetchRejects(c)
    \/ \E c \in Calls : Quiet /\ ApiResponse(c)

\* Concurrent invocations of operations that hand apiCall a fixed request.
Next ==
    \/ Quiet /\ Tick
    \/ \E c \in Calls : Quiet /\ Invoke(c)
    \/ Continue

Spec == Init /\ [][Next]_vars

\* One invocation of addTag, on every input.
InitTag ==
    /\ InitCore
    /\ opInput \in TagInputs
    /\ opRequest = NoRequest

NextTag ==
    \/ Quiet /\ AddTag
    \/ Continue

SpecTag == InitTag /\ [][NextTag]_vars

\* One invocation of an operation that builds its request from its input,
\* on every input.
OpInputs == ListInputs \cup EnvelopeInputs \cup RecipientInputs

InitOps ==
    /\ InitCore
    /\ opInput \in OpInputs
    /\ opRequest = NoRequest

NextOps ==
    \/ Quiet /\ ListEnvelopes
    \/ Quiet /\ CreateEnvelope
    \/ Quiet /\ AddRecipient
    \/ Continue

SpecOps == InitOps /\ [][NextOps]_vars

\* One invocation of uploadFile, on every path, beside invocations of other
\* operations that fill the token cache.
InitUpload ==
    /\ InitCore
    /\ opInput \in UploadInputs
    /\ opRequest = NoRequest

NextUpload ==
    \/ Quiet /\ UploadFile
    \/ \E c \in Calls \ {UploadCall} : Quiet /\ Invoke(c)
    \/ Continue

SpecUpload == InitUpload /\ [][NextUpload]_vars

-----------------------------------------------------------------------------
(* Properties of the token cache *)

\* The call c has run getToken's cache check and has not yet sent its
\* resource request: the record still holds what the check saw.
Checked(c) ==
    \/ calls[c].pc \in {"authWait", "haveToken"}
    \/ calls[c].pc = "settled" /\ calls[c].apiReqs = 0

\* C1: a token that getToken returns from the cache satisfies
\* now < expiresAt - 60 at the moment it is returned, expiresAt being the
\* expiry stored with that token.
C1_CachedTokenStillValid ==
    \A c \in Calls :
        (Checked(c) /\ calls[c].hit) =>
            /\ calls[c].seen.token # NoToken
            /\ calls[c].token = calls[c].seen.token
            /\ calls[c].seen.now < calls[c].seen.expiry - 60

\* A call was served from the cache some time after the token was cached.
C1_Witness ==
    \E c \in Calls :
        /\ calls[c].pc = "haveToken" /\ calls[c].hit
        /\ calls[c].seen.now > calls[c].seen.at
        /\ calls[c].token = calls[c].seen.token

\* The cache check of call c saw a token cached at time T with
\* expiresAt = T + 3600.
SawHourToken(c) ==
    /\ Checked(c)
    /\ calls[c].seen.token # NoToken
    /\ calls[c].seen.expiry = calls[c].seen.at + 3600

\* What call c does when its check is a miss: exactly one exchange, and once
\* the exchange has succeeded the cache was overwritten with the response's
\* token and exp and the new token returned.
Refreshes(c) ==
    /\ ~calls[c].hit
    /\ calls[c].authReqs = 1
    /\ calls[c].pc = "haveToken" =>
          /\ calls[c].wrote = calls[c].data
          /\ calls[c].token = calls[c].data.token
          /\ calls[c].token # calls[c].seen.token

\* What call c does when its check is a hit: no request, the cached token.
ServedFromCache(c) ==
    /\ calls[c].hit
    /\ calls[c].authReqs = 0
    /\ calls[c].token = calls[c].seen.token

\* C2 as stated: with a token cached at T with expiresAt = T + 3600, a
\* getToken call within the next 3540 seconds (T + 3540 included) issues no
\* request and returns that token, and a call at T + 3541 or later issues
\* exactly one exchange, overwrites the cache and returns the new token.
C2_AsStated ==
    \A c \in Calls :
        SawHourToken(c) =>
            /\ calls[c].seen.now <= calls[c].seen.at + 3540 => ServedFromCache(c)
            /\ calls[c].seen.now >= calls[c].seen.at + 3541 => Refreshes(c)

\* C2 amended: the call is served from the cache strictly before T + 3540
\* and refreshes at T + 3540 or later.
C2_RefreshFromBoundary ==
    \A c \in Calls :
        SawHourToken(c) =>
            /\ calls[c].seen.now < calls[c].seen.at + 3540 => ServedFromCache(c)
            /\ calls[c].seen.now >= calls[c].seen.at + 3540 => Refreshes(c)

\* A call made exactly 3540 seconds after the token was cached has
\* refreshed it.
C2_Witness ==
    \E c \in Calls :
        /\ SawHourToken(c)
        /\ calls[c].seen.now = calls[c].seen.at + 3540
        /\ calls[c].pc = "haveToken"
        /\ cachedToken = calls[c].token

\* C3: under every interleaving, a getToken call returns either the cached
\* token that was valid when the call checked the cache, or the token of the
\* exchange the call made itself; nothing else.
C3_OldValidOrFresh ==
    \A c \in Calls :
        calls[c].pc = "haveToken" =>
            IF calls[c].hit
            THEN /\ calls[c].token = calls[c].seen.token
                 /\ calls[c].token # NoToken
                 /\ calls[c].seen.now < calls[c].seen.expiry - 60
            ELSE /\ calls[c].authReqs = 1
                 /\ calls[c].token = calls[c].data.token
                 /\ calls[c].token # NoToken
                 /\ calls[c].token # calls[c].seen.token

\* Two calls hold tokens at once: one fetched it, the other was served the
\* same token from the cache while the first had not yet used it.
C3_Witness ==
    \E c, d \in Calls :
        /\ c # d
        /\ calls[c].pc = "haveToken" /\ ~calls[c].hit
        /\ calls[d].pc = "haveToken" /\ calls[d].hit
        /\ calls[d].token = calls[c].token

\* C4: calls that overlap on an absent or expired cache each issue their own
\* exchange; the cached token and expiry always come from one response, the
\* one processed last.
C4_LastWriteWins ==
    /\ cachedToken = lastExch.token
    /\ tokenExpiry = lastExch.expiry
    /\ \A c \in Calls :
          (Checked(c) /\ ~calls[c].hit) =>
              /\ calls[c].authReqs = 1
              /\ calls[c].pc = "haveToken" => calls[c].wrote = calls[c].data

\* Two calls saw the same unusable cache, both exchanged, and the cache
\* holds the pair of the second response, whose expiry is the earlier one.
C4_Witness ==
    \E c, d \in Calls :
        /\ c # d
        /\ calls[c].pc = "haveToken" /\ ~calls[c].hit
        /\ calls[d].pc = "haveToken" /\ ~calls[d].hit
        /\ calls[c].seen.token = calls[d].seen.token
        /\ calls[c].data.token < calls[d].data.token
        /\ calls[c].data.expiry > calls[d].data.expiry
        /\ cachedToken = calls[d].data.token
        /\ tokenExpiry = calls[d].data.expiry

-----------------------------------------------------------------------------
(* Properties of the errors and of the response dispatch.  They are stated
   on lastResult, which every settling apiCall passes through. *)

\* apiCall has just settled on the answer to the token exchange.
AuthAnswered == lastResult.call # 0 /\ lastResult.phase = "auth" /\ lastResult.status # 0

\* apiCall has just settled on the answer to the resource request.
ApiAnswered == lastResult.call # 0 /\ lastResult.phase = "api" /\ lastResult.status # 0

Success(status) == status \in 200..299
BinaryType(contentType) ==
    contentType \in { <<"application/pdf">>, <<"application/zip", "charset=binary">> }
IsJson(text) == text = "{\"id\":\"e1\"}"

\* The error is the one of a rejected token exchange (AuthError), with
\* status and body.
IsAuthError(err, status, body) ==
    err = [name |-> "Error", prefix |-> "Auth failed", status |-> status, body |-> body]

\* The error is the one of a rejected request (ApiError), with status and body.
IsApiError(err, status, body) ==
    err = [name |-> "Error", prefix |-> "API error", status |-> status, body |-> body]

\* C5: a token exchange answered with a non-success status makes getToken,
\* and with it the calling operation, fail with an AuthError carrying the
\* status and the response body; the cached token and expiry are unchanged
\* and no resource request is sent.
C5_AuthFailure ==
    (AuthAnswered /\ ~Success(lastResult.status)) =>
        /\ lastResult.threw
        /\ IsAuthError(lastResult.error, lastResult.status, lastResult.text)
        /\ cachedToken = lastResult.before.token
        /\ tokenExpiry = lastResult.before.expiry
        /\ calls[lastResult.call].result = "threw"
        /\ calls[lastResult.call].authReqs = 1
        /\ calls[lastResult.call].apiReqs = 0

\* An exchange was rejected with 401 while a token (an expired one) was cached.
C5_Witness ==
    /\ AuthAnswered
    /\ lastResult.status = 401
    /\ lastResult.threw
    /\ cachedToken # NoToken
    /\ calls[lastResult.call].seen.token = cachedToken

\* C6 as stated: every request answered with a status that is neither 2xx
\* nor 204 fails with an ApiError carrying the status and the response
\* body, and is never returned as a success value.
C6_AsStated ==
    (ApiAnswered /\ ~Success(lastResult.status)) =>
        /\ lastResult.threw
        /\ IsApiError(lastResult.error, lastResult.status, lastResult.text)

\* C6 amended: a response that is not PDF or ZIP and whose status is not 2xx
\* makes the operation fail, never return; when its body is JSON the error
\* is an ApiError carrying the status and the body.
C6_NonBinaryErrorStatusFails ==
    (ApiAnswered /\ ~Success(lastResult.status) /\ ~BinaryType(lastResult.contentType)) =>
        /\ lastResult.threw
        /\ calls[lastResult.call].result = "threw"
        /\ IsJson(lastResult.text) =>
              IsApiError(lastResult.error, lastResult.status, lastResult.text)

\* A 502 with a JSON body has made the operation fail.
C6_Witness ==
    /\ ApiAnswered
    /\ lastResult.status = 502
    /\ lastResult.contentType = <<"application/json">>
    /\ IsJson(lastResult.text)
    /\ lastResult.threw

\* C7: dispatch in priority order: PDF or ZIP content gives the binary
\* result with content type and bytes whatever the status; otherwise 204
\* gives the no-payload success; otherwise the body is read as JSON and
\* returned when the status is 2xx.  Every response ends as one of the three
\* results or as an error, never both.
C7_DispatchOrder ==
    ApiAnswered =>
        /\ lastResult.threw <=> lastResult.error # NoError
        /\ lastResult.threw <=> lastResult.value = NoValue
        /\ lastResult.threw <=> calls[lastResult.call].result = "threw"
        /\ IF BinaryType(lastResult.contentType)
           THEN lastResult.value =
                    [binary |-> TRUE, contentType |-> lastResult.contentType,
                     buffer |-> lastResult.text, json |-> ""]
           ELSE IF lastResult.status = 204
           THEN lastResult.value =
                    [binary |-> FALSE, contentType |-> <<>>, buffer |-> "",
                     json |-> "{\"success\":true}"]
           ELSE IF IsJson(lastResult.text) /\ Success(lastResult.status)
           THEN lastResult.value =
                    [binary |-> FALSE, contentType |-> <<>>, buffer |-> "",
                     json |-> lastResult.text]
           ELSE lastResult.threw

\* A 204 response with PDF content was returned as a binary result.
C7_Witness ==
    /\ ApiAnswered
    /\ lastResult.status = 204
    /\ lastResult.contentType = <<"application/pdf">>
    /\ lastResult.value.binary
    /\ lastResult.value.buffer = lastResult.text

\* C8: every failure is categorized; in particular a response that is
\* neither binary nor 204, whose status is not 2xx and whose body is not
\* JSON fails with an ApiError carrying the status and the raw body, never
\* with an uncategorized error.
C8_ErrorStatusFailsAsApiError ==
    ( /\ ApiAnswered
      /\ ~BinaryType(lastResult.contentType)
      /\ ~Success(lastResult.status)
      /\ ~IsJson(lastResult.text) ) =>
        /\ lastResult.threw
        /\ lastResult.error.prefix \in {"Auth failed", "API error"}
        /\ IsApiError(lastResult.error, lastResult.status, lastResult.text)

\* C9: one invocation issues at most one token exchange and at most one
\* resource request, the resource request only with the token getToken
\* returned, and a call that failed has issued nothing twice.
C9_NoRetries ==
    \A c \in Calls :
        /\ calls[c].authReqs <= 1
        /\ calls[c].apiReqs <= 1
        /\ calls[c].apiReqs = 1 => calls[c].pc \in {"apiWait", "settled", "done"}
        /\ calls[c].pc = "apiWait" => calls[c].apiReqs = 1 /\ calls[c].bearer # NoToken
        /\ calls[c].pc \in {"idle", "authWait", "haveToken"} => calls[c].apiReqs = 0
        /\ calls[c].pc = "authWait" => calls[c].authReqs = 1
        /\ calls[c].pc = "idle" => calls[c].authReqs = 0

\* An invocation is over, having failed after one exchange and one request.
C9_Witness ==
    \E c \in Calls :
        /\ calls[c].pc = "done"
        /\ calls[c].result = "threw"
        /\ calls[c].authReqs = 1
        /\ calls[c].apiReqs = 1

-----------------------------------------------------------------------------
(* Properties of the request addTag builds (under SpecTag) *)

Coordinates == {"page", "xPosition", "yPosition"}

\* The field is supplied as a non-empty value.
Given(v) == v # Undef /\ v # Str("")

-----------------------------------------------------------------------------
(* Properties of the requests the other operations build (under SpecOps) *)

\* The text of a value in a query string or a body.
ValueText(v) ==
    CASE v = Str("sent") -> "sent"
      [] v = Num(0) -> "0"
      [] v = Num(1) -> "1"
      [] v = Num(2) -> "2"
      [] OTHER -> ""

\* name=value when the filter is present in the input, nothing otherwise.
FilterPart(name, v) ==
    IF v # Undef THEN <<name \o "=" \o ValueText(v)>> ELSE <<>>

JoinParts(parts) ==
    CASE Len(parts) = 0 -> ""
      [] Len(parts) = 1 -> "?" \o parts[1]
      [] Len(parts) = 2 -> "?" \o parts[1] \o "&" \o parts[2]
      [] OTHER -> "?" \o parts[1] \o "&" \o parts[2] \o "&" \o parts[3]

\* C11: the query string of listEnvelopes has a parameter for a filter if
\* and only if the filter is present in the input, with the supplied value,
\* whatever that value is; with no filter there is no query string.
C11_FilterPresentIffSupplied ==
    (opInput.op = "listEnvelopes" /\ opRequest # NoRequest) =>
        opRequest.path =
            "/api/envelopes" \o JoinParts(FilterPart("status", opInput.status)
                                          \o FilterPart("page", opInput.page)
                                          \o FilterPart("itemsPerPage", opInput.itemsPerPage))

\* The keys of the optional fields the input holds, whatever their value.
Present(in, fields) == {k \in fields : in[k] # Undef}

\* The keys of the optional fields the input holds with a non-empty value.
NonEmpty(in, fields) == {k \in fields : Given(in[k])}

\* C13 as stated: the body of createEnvelope holds name and exactly the
\* optional fields the caller supplied, the body of addRecipient holds role,
\* name, email and mobile exactly when it was supplied.
C13_AsStated ==
    /\ (opInput.op = "createEnvelope" /\ opRequest # NoRequest) =>
           DOMAIN opRequest.sent = {"name"} \cup Present(opInput, OptionalEnvelopeFields)
    /\ (opInput.op = "addRecipient" /\ opRequest # NoRequest) =>
           DOMAIN opRequest.sent = {"role", "name", "email"} \cup Present(opInput, {"mobile"})

\* C13: the body of createEnvelope holds name and exactly the optional
\* fields the caller supplied with a non-empty value, the body of
\* addRecipient holds role, name, email and mobile exactly when it was
\* supplied with a non-empty value; every field holds the value of the input,
\* and no optional field is in the body as undefined, null or empty.
C13_NonEmptyOptionalFieldsOnly ==
    /\ (opInput.op = "createEnvelope" /\ opRequest # NoRequest) =>
           /\ opRequest.path = "/api/envelopes"
           /\ DOMAIN opRequest.sent = {"name"} \cup NonEmpty(opInput, OptionalEnvelopeFields)
           /\ DOMAIN opRequest.body = DOMAIN opRequest.sent
           /\ \A k \in DOMAIN opRequest.sent : opRequest.sent[k] = opInput[k]
           /\ \A k \in DOMAIN opRequest.sent \cap OptionalEnvelopeFields :
                  Given(opRequest.sent[k])
    /\ (opInput.op = "addRecipient" /\ opRequest # NoRequest) =>
           /\ opRequest.path = "/api/envelopes/e1/recipients"
           /\ DOMAIN opRequest.sent = {"role", "name", "email"} \cup NonEmpty(opInput, {"mobile"})
           /\ DOMAIN opRequest.body = DOMAIN opRequest.sent
           /\ \A k \in DOMAIN opRequest.sent : opRequest.sent[k] = opInput[k]
           /\ "mobile" \in DOMAIN opRequest.sent => Given(opRequest.sent["mobile"])

\* createEnvelope has sent a body with one optional field supplied, one
\* missing and one empty.
C13_Witness ==
    /\ opInput.op = "createEnvelope"
    /\ calls[1].pc = "apiWait"
    /\ Given(opInput.emailBody)
    /\ opInput.senderName = Undef
    /\ opInput.senderEmail = Str("")
    /\ DOMAIN opRequest.sent = {"name", "emailBody"}

-----------------------------------------------------------------------------
(* Properties of uploadFile (under SpecUpload) *)

\* C12: uploadFile on a path that does not exist or cannot be read fails
\* with a filesystem error, which is not an ApiError, before any network
\* activity: no token exchange, no upload request, the token cache unchanged.
C12_UploadFailsBeforeNetwork ==
    ( /\ opInput.op = "uploadFile"
      /\ opInput.filePath \in {"/tmp/missing.pdf", "/root/secret.pdf"}
      /\ calls[UploadCall].pc # "idle" ) =>
        /\ calls[UploadCall].pc \in {"settled", "done"}
        /\ calls[UploadCall].result = "threw"
        /\ calls[UploadCall].authReqs = 0
        /\ calls[UploadCall].apiReqs = 0
        /\ opRequest = NoRequest
        /\ calls[UploadCall].pc = "settled" =>
              /\ lastResult.call = UploadCall
              /\ lastResult.threw
              /\ lastResult.error.prefix \in {"ENOENT", "EACCES"}
              /\ lastResult.error.prefix \notin {"API error", "Auth failed"}
              /\ lastResult.status = 0
              /\ cachedToken = lastResult.before.token
              /\ tokenExpiry = lastResult.before.expiry

\* uploadFile has failed on a missing path while a token was cached.
C12_Witness ==
    /\ opInput.op = "uploadFile"
    /\ opInput.filePath = "/tmp/missing.pdf"
    /\ calls[UploadCall].pc = "settled"
    /\ lastResult.error.prefix = "ENOENT"
    /\ cachedToken # NoToken
    /\ calls[UploadCall].authReqs = 0

====
